---- MODULE Spec2Model ----
(***************************************************************************)
(* paat.estimates.calculate_pa_levels: ENMO per sample, resampling into    *)
(* fixed epochs, thresholding against two cutpoints and the as-of join of  *)
(* the epoch labels back onto the samples.                                 *)
(*                                                                         *)
(* Units.  Accelerations and cutpoints are fixed-point numbers in          *)
(* thousandths of g (0.069 g is 69).  Timestamps are whole seconds counted *)
(* from midnight of the day of the first sample; an interval "ks" is the   *)
(* integer k and a missing interval (None or "") is None.  A mean is kept  *)
(* exact as the pair <<sum, count>>; count 0 is NaN.  A label cell is      *)
(* "True", "False" or "NaN" (a cell the join left unmatched), so that the  *)
(* three can share a column.                                               *)
(***************************************************************************)
EXTENDS Integers, Sequences, FiniteSets, TLC

\* ------------------------------------------------------------------ bounds
MaxLen == 3
MaxTime == 2
MaxInterval == 2

\* -------------------------------------------------------- program constants
DefaultMvpaCutpoint == 69
DefaultSbCutpoint == 15
One == 1000

\* The interval that is not set: None and "" are both false in "if interval".
None == 0
NaN == <<0, 0>>

\* The triples the samples are drawn from: magnitude exactly one (ENMO 0),
\* and ENMO 15, 69 and 100.
Accelerations ==
    { <<0, 1000, 0>>, <<1015, 0, 0>>, <<0, 0, 1069>>, <<660, 880, 0>> }

CutpointPairs ==
    { <<DefaultMvpaCutpoint, DefaultSbCutpoint>>,
      <<DefaultSbCutpoint, DefaultMvpaCutpoint>>,
      <<DefaultSbCutpoint, DefaultSbCutpoint>> }

Intervals == {None} \cup (1..MaxInterval)

IsSorted(s) == \A i \in 1..(Len(s) - 1) : s[i] <= s[i + 1]

Times == UNION { { s \in [1..n -> 0..MaxTime] : IsSorted(s) } : n \in 1..MaxLen }

\* ------------------------------------------------------------- arithmetic
RECURSIVE SqrtSearch(_, _, _)
SqrtSearch(x, lo, hi) ==
    IF lo >= hi THEN lo
    ELSE LET mid == (lo + hi + 1) \div 2
         IN  IF mid * mid <= x THEN SqrtSearch(x, mid, hi)
                               ELSE SqrtSearch(x, lo, mid - 1)

ISqrt(x) == SqrtSearch(x, 0, 4 * One)

\* The Euclidean norm of one triple, optionally minus one, optionally with a
\* negative result rounded to zero.
vector_magnitude(a, minus_one, round_negative_to_zero) ==
    LET vm == ISqrt(a[1] * a[1] + a[2] * a[2] + a[3] * a[3])
        m  == IF minus_one THEN vm - One ELSE vm
    IN  IF round_negative_to_zero /\ m < 0 THEN 0 ELSE m

\* preprocessing.calculate_vector_magnitude: one magnitude per triple.
calculate_vector_magnitude(acc, minus_one, round_negative_to_zero) ==
    [ i \in 1..Len(acc) |-> vector_magnitude(acc[i], minus_one, round_negative_to_zero) ]

\* GreaterEqual with the comparison made strict.
StrictlyGreater(m, c) == m[2] > 0 /\ m[1] > c * m[2]

\* Comparisons of a mean <<sum, count>> with a cutpoint; with NaN both are false.
GreaterEqual(m, c) == m[2] > 0 /\ m[1] >= c * m[2]
LessEqual(m, c) == m[2] > 0 /\ m[1] <= c * m[2]

Bool(b) == IF b THEN "True" ELSE "False"

\* ------------------------------------------------------------- data frames
\* A frame is [cols: the column names in order, rows: one function from the
\* column names to the cell per row].
Range(s) == { s[i] : i \in 1..Len(s) }

EmptyFrame == [cols |-> <<>>, rows |-> <<>>]

Column(frame, c) == [ i \in 1..Len(frame.rows) |-> frame.rows[i][c] ]

\* frame.loc[:, c] = values, for a column c the frame does not have yet.
SetColumn(frame, c, values) ==
    [ cols |-> Append(frame.cols, c),
      rows |-> [ i \in 1..Len(frame.rows) |-> frame.rows[i] @@ (c :> values[i]) ] ]

\* frame[[names]]
Select(frame, names) ==
    [ cols |-> names,
      rows |-> [ i \in 1..Len(frame.rows) |-> [ c \in Range(names) |-> frame.rows[i][c] ] ] ]

\* pd.DataFrame(acceleration, columns=["Y", "X", "Z"])
DataFrame(acc) ==
    [ cols |-> <<"Y", "X", "Z">>,
      rows |-> [ i \in 1..Len(acc) |->
                   [ Y |-> <<acc[i][1], 1>>, X |-> <<acc[i][2], 1>>, Z |-> <<acc[i][3], 1>> ] ] ]

RECURSIVE SumIn(_, _, _, _, _)
\* Sum of column c over the rows 1..n of frame whose Time lies in [lo, hi).
SumIn(frame, c, lo, hi, n) ==
    IF n = 0 THEN 0
    ELSE SumIn(frame, c, lo, hi, n - 1)
         + (IF lo <= frame.rows[n].Time /\ frame.rows[n].Time < hi
            THEN frame.rows[n][c][1] ELSE 0)

CountIn(frame, lo, hi) ==
    Cardinality({ i \in 1..Len(frame.rows) : lo <= frame.rows[i].Time /\ frame.rows[i].Time < hi })

\* BinMean dividing the sum of the bin by the number of all rows of the frame.
BinMeanOverAllRows(frame, c, lo, hi) ==
    IF CountIn(frame, lo, hi) = 0 THEN NaN
    ELSE <<SumIn(frame, c, lo, hi, Len(frame.rows)), Len(frame.rows)>>

\* BinMean with a bin without rows filled with zero.
BinMeanZeroFilled(frame, c, lo, hi) ==
    IF CountIn(frame, lo, hi) = 0 THEN <<0, 1>>
    ELSE <<SumIn(frame, c, lo, hi, Len(frame.rows)), CountIn(frame, lo, hi)>>

\* The mean of column c over the bin [lo, hi): NaN for a bin without rows.
BinMean(frame, c, lo, hi) ==
    IF CountIn(frame, lo, hi) = 0 THEN NaN
    ELSE <<SumIn(frame, c, lo, hi, Len(frame.rows)), CountIn(frame, lo, hi)>>

Min(s) == CHOOSE x \in Range(s) : \A y \in Range(s) : x <= y
Max(s) == CHOOSE x \in Range(s) : \A y \in Range(s) : y <= x

\* FirstEdge with the bins anchored at the first timestamp itself.
FirstEdgeAtStart(first, freq) == first

\* The left edge of the first bin: the first timestamp moved back to a whole
\* multiple of the interval counted from midnight of its day.
FirstEdge(first, freq) == first - (first % freq)

\* The right edge of the last bin (bins are closed on the left).
LastEdge(last, freq) == last - (last % freq) + freq

\* The left edge of bin k (k from 0).
BinEdge(first, freq, k) == FirstEdge(first, freq) + k * freq

\* BinLabel with a bin labelled by its right edge.
BinLabelRight(first, freq, k) == BinEdge(first, freq, k + 1)

\* The label of bin k, the timestamp of its row: its left edge.
BinLabel(first, freq, k) == BinEdge(first, freq, k)

\* frame.set_index("Time").resample(freq).mean().reset_index()
ResampleMean(frame, freq) ==
    LET first == Min(Column(frame, "Time"))
        last  == Max(Column(frame, "Time"))
        nbins == (LastEdge(last, freq) - FirstEdge(first, freq)) \div freq
        vals  == SelectSeq(frame.cols, LAMBDA c : c # "Time")
    IN  [ cols |-> <<"Time">> \o vals,
          rows |-> [ k \in 1..nbins |->
                       LET lo == BinEdge(first, freq, k - 1)
                       IN  [ c \in Range(frame.cols) |->
                               IF c = "Time" THEN BinLabel(first, freq, k - 1)
                               ELSE BinMean(frame, c, lo, lo + freq) ] ] ]

\* AsofMatch looking forward: the first row whose key is >= the key.
AsofMatchForward(right, on, key) ==
    LET cand == { j \in 1..Len(right.rows) : right.rows[j][on] >= key }
    IN  IF cand = {} THEN 0 ELSE CHOOSE j \in cand : \A k \in cand : j <= k

\* AsofMatch without exact matches: the last row whose key is < the key.
AsofMatchNoExact(right, on, key) ==
    LET cand == { j \in 1..Len(right.rows) : right.rows[j][on] < key }
    IN  IF cand = {} THEN 0 ELSE CHOOSE j \in cand : \A k \in cand : k <= j

\* The row of right the backward as-of match gives a key: the last row whose
\* key is <= the key, 0 when there is none.
AsofMatch(right, on, key) ==
    LET cand == { j \in 1..Len(right.rows) : right.rows[j][on] <= key }
    IN  IF cand = {} THEN 0 ELSE CHOOSE j \in cand : \A k \in cand : k <= j

\* pd.merge_asof(left, right, on=on): every row of left, in order, with the
\* columns of its match in right; a column the two frames share (other than
\* the key) is kept twice, as c_x and c_y.
merge_asof(left, right, on) ==
    LET overlap == (Range(left.cols) \cap Range(right.cols)) \ {on}
        lname(c) == IF c \in overlap THEN c \o "_x" ELSE c
        rname(c) == IF c \in overlap THEN c \o "_y" ELSE c
        rcols == SelectSeq(right.cols, LAMBDA c : c # on)
        lnew == [ i \in 1..Len(left.cols) |-> lname(left.cols[i]) ]
        rnew == [ i \in 1..Len(rcols) |-> rname(rcols[i]) ]
        cell(i, n) ==
            IF \E c \in Range(left.cols) : lname(c) = n
            THEN left.rows[i][CHOOSE c \in Range(left.cols) : lname(c) = n]
            ELSE LET c == CHOOSE d \in Range(rcols) : rname(d) = n
                     j == AsofMatch(right, on, left.rows[i][on])
                 IN  IF j = 0 THEN "NaN" ELSE right.rows[j][c]
    IN  [ cols |-> lnew \o rnew,
          rows |-> [ i \in 1..Len(left.rows) |->
                       [ n \in Range(lnew) \cup Range(rnew) |-> cell(i, n) ] ] ]

\* ------------------------------------------------------------------- state
VARIABLES
    time, acceleration, mvpa_cutpoint, sb_cutpoint, interval,  \* the arguments
    data, tmp,        \* the two frames
    tmp_is_data,      \* tmp names the same frame object as data
    result,           \* what the call returned or raised
    pc                \* the statement the call is at

vars == <<time, acceleration, mvpa_cutpoint, sb_cutpoint, interval,
          data, tmp, tmp_is_data, result, pc>>

args == <<time, acceleration, mvpa_cutpoint, sb_cutpoint, interval>>

Init ==
    /\ time \in Times
    /\ acceleration \in [1..Len(time) -> Accelerations]
    /\ \E p \in CutpointPairs : mvpa_cutpoint = p[1] /\ sb_cutpoint = p[2]
    /\ interval \in Intervals
    /\ data = EmptyFrame
    /\ tmp = EmptyFrame
    /\ tmp_is_data = FALSE
    /\ result = [status |-> "running", value |-> <<>>]
    /\ pc = "frame"

\* Lines 49-53: the frame of the samples with their Time and EMNO columns.
SampleFrame(t, acc) ==
    SetColumn(SetColumn(DataFrame(acc), "Time", t), "EMNO",
              [ i \in 1..Len(t) |-> <<calculate_vector_magnitude(acc, TRUE, TRUE)[i], 1>> ])

BuildFrame ==
    /\ pc = "frame"
    /\ data' = SampleFrame(time, acceleration)
    /\ pc' = "bucket"
    /\ UNCHANGED <<args, tmp, tmp_is_data, result>>

\* Lines 55-56: interval is set, tmp is the frame of the epoch means.
Resample ==
    /\ pc = "bucket"
    /\ interval # None
    /\ tmp' = ResampleMean(data, interval)
    /\ tmp_is_data' = FALSE
    /\ pc' = "classify"
    /\ UNCHANGED <<args, data, result>>

\* Lines 57-58: no interval, tmp is another name of data.
NoResample ==
    /\ pc = "bucket"
    /\ interval = None
    /\ tmp' = data
    /\ tmp_is_data' = TRUE
    /\ pc' = "classify"
    /\ UNCHANGED <<args, data, result>>

MvpaLabels(frame, cutpoint) ==
    [ i \in 1..Len(frame.rows) |-> Bool(GreaterEqual(frame.rows[i].EMNO, cutpoint)) ]

SbLabels(frame, cutpoint) ==
    [ i \in 1..Len(frame.rows) |-> Bool(LessEqual(frame.rows[i].EMNO, cutpoint)) ]

\* Labelled with the two cutpoints exchanged.
LabelledSwapped(frame, mvpa, sb) ==
    SetColumn(SetColumn(frame, "MVPA", MvpaLabels(frame, sb)), "SB", SbLabels(frame, mvpa))

\* Lines 60-61: the two label columns of tmp.
Labelled(frame, mvpa, sb) ==
    SetColumn(SetColumn(frame, "MVPA", MvpaLabels(frame, mvpa)), "SB", SbLabels(frame, sb))

Classify ==
    /\ pc = "classify"
    /\ tmp' = Labelled(tmp, mvpa_cutpoint, sb_cutpoint)
    /\ data' = IF tmp_is_data THEN tmp' ELSE data
    /\ pc' = "merge"
    /\ UNCHANGED <<args, tmp_is_data, result>>

\* Line 63: the as-of join; it raises when a key column is not sorted.
MergeAsof ==
    /\ pc = "merge"
    /\ IF IsSorted(Column(data, "Time")) /\ IsSorted(Column(tmp, "Time"))
       THEN /\ data' = merge_asof(data, Select(tmp, <<"Time", "MVPA", "SB">>), "Time")
            /\ pc' = "return"
            /\ UNCHANGED result
       ELSE /\ result' = [status |-> "ValueError", value |-> <<>>]
            /\ pc' = "raised"
            /\ UNCHANGED data
    /\ UNCHANGED <<args, tmp, tmp_is_data>>

\* Line 65: data[["MVPA", "SB"]].values
Return ==
    /\ pc = "return"
    /\ {"MVPA", "SB"} \subseteq Range(data.cols)
    /\ result' = [ status |-> "ok",
                   value |-> [ i \in 1..Len(data.rows) |->
                                 <<data.rows[i].MVPA, data.rows[i].SB>> ] ]
    /\ pc' = "done"
    /\ UNCHANGED <<args, data, tmp, tmp_is_data>>

\* Line 65 when data has no column of that name.
RaiseKeyError ==
    /\ pc = "return"
    /\ ~ ({"MVPA", "SB"} \subseteq Range(data.cols))
    /\ result' = [status |-> "KeyError", value |-> <<>>]
    /\ pc' = "raised"
    /\ UNCHANGED <<args, data, tmp, tmp_is_data>>

Next ==
    \/ BuildFrame
    \/ Resample
    \/ NoResample
    \/ Classify
    \/ MergeAsof
    \/ Return
    \/ RaiseKeyError

Spec == Init /\ [][Next]_vars

\* calculate_pa_levels with an interval set, as a relation between its
\* arguments and the rows it returns (lines 49-65): row is one of the rows of
\* the call.
ReturnsRow(t, acc, mvpa, sb, freq, row) ==
    \E frame \in { SampleFrame(t, acc) } :
    \E table \in { Labelled(ResampleMean(frame, freq), mvpa, sb) } :
    \E merged \in { merge_asof(frame, Select(table, <<"Time", "MVPA", "SB">>), "Time") } :
    \E i \in 1..Len(merged.rows) : <<merged.rows[i].MVPA, merged.rows[i].SB>> = row

\* ===================================================================== claims
Samples == 1..Len(time)

\* The ENMO of sample i, as the EMNO column of the frame of the samples has it
\* (the rows of data stay in the order of the arguments).
Enmo(i) == data.rows[i].EMNO[1]

Magnitude(i) == vector_magnitude(acceleration[i], FALSE, FALSE)

RECURSIVE EnmoSumTo(_, _)
EnmoSumTo(S, n) ==
    IF n = 0 THEN 0 ELSE EnmoSumTo(S, n - 1) + (IF n \in S THEN Enmo(n) ELSE 0)

\* The sum of the ENMO of the samples in S.
EnmoSum(S) == EnmoSumTo(S, Len(time))

Windows == 1..Len(tmp.rows)

\* The samples whose timestamp lies in the interval-wide window that starts at
\* the timestamp of row r of the window table.
WindowSamples(r) ==
    { j \in Samples : tmp.rows[r].Time <= time[j] /\ time[j] < tmp.rows[r].Time + interval }

Finished == pc \in {"done", "raised"}
\* Right after the bucketing of line 56, and right after the classification
\* of lines 60-61 (tmp does not change after it).
Bucketed == interval # None /\ pc = "classify"
Classified == interval # None /\ pc = "merge"
Returned == interval # None /\ pc = "done"

\* C1: with an interval set, sample i carries the labels of the latest window
\* whose timestamp is <= the timestamp of sample i, and the labels of that
\* window are (mean ENMO of its samples >= mvpa_cutpoint, mean <= sb_cutpoint).
C1_LatestWindowLabels ==
    Returned =>
        \A i \in Samples : \E r \in Windows :
            /\ tmp.rows[r].Time <= time[i]
            /\ \A q \in Windows :
                   tmp.rows[q].Time <= time[i] => tmp.rows[q].Time <= tmp.rows[r].Time
            /\ result.value[i] = <<tmp.rows[r].MVPA, tmp.rows[r].SB>>
            /\ LET W == WindowSamples(r)
               IN  /\ W # {}
                   /\ tmp.rows[r].MVPA = Bool(EnmoSum(W) >= mvpa_cutpoint * Cardinality(W))
                   /\ tmp.rows[r].SB = Bool(EnmoSum(W) <= sb_cutpoint * Cardinality(W))

\* A call that returned where a sample has an earlier window before its own,
\* its window holds two samples of different ENMO and the rows differ.
C1_Witness ==
    /\ Returned
    /\ \E i \in Samples : \E r, q \in Windows :
           /\ tmp.rows[q].Time < tmp.rows[r].Time
           /\ tmp.rows[r].Time <= time[i]
           /\ \E j, k \in WindowSamples(r) : Enmo(j) # Enmo(k)
           /\ result.value[i] # result.value[1]

\* C2: every call returns exactly one (MVPA, SB) pair of booleans per input
\* sample, row i for sample i, with the interval set or not.
C2_ShapeForAllInputs ==
    Finished =>
        /\ result.status = "ok"
        /\ Len(result.value) = Len(time)
        /\ \A i \in Samples :
               /\ data.rows[i].Time = time[i]
               /\ result.value[i] = <<data.rows[i].MVPA, data.rows[i].SB>>
               /\ result.value[i] \in {"True", "False"} \X {"True", "False"}

\* C3: without an interval, row i is (ENMO_i >= mvpa_cutpoint, ENMO_i <=
\* sb_cutpoint) of the sample's own ENMO.
C3_PerSampleWithoutInterval ==
    (Finished /\ interval = None) =>
        /\ result.status = "ok"
        /\ Len(result.value) = Len(time)
        /\ \A i \in Samples :
               result.value[i] = <<Bool(Enmo(i) >= mvpa_cutpoint), Bool(Enmo(i) <= sb_cutpoint)>>

\* C4: both thresholds are inclusive: every sample of an epoch whose mean ENMO
\* equals mvpa_cutpoint has MVPA true, and every sample of an epoch whose mean
\* ENMO equals sb_cutpoint has SB true.
C4_InclusiveThresholds ==
    Returned =>
        \A r \in Windows :
            LET W == WindowSamples(r)
            IN  W # {} =>
                  /\ EnmoSum(W) = mvpa_cutpoint * Cardinality(W) =>
                         \A i \in W : result.value[i][1] = "True"
                  /\ EnmoSum(W) = sb_cutpoint * Cardinality(W) =>
                         \A i \in W : result.value[i][2] = "True"

\* A call that returned with one epoch whose mean is the MVPA cutpoint and
\* another whose mean is the (different) SB cutpoint.
C4_Witness ==
    /\ Returned
    /\ mvpa_cutpoint # sb_cutpoint
    /\ \E r, q \in Windows :
           /\ WindowSamples(r) # {} /\ WindowSamples(q) # {}
           /\ EnmoSum(WindowSamples(r)) = mvpa_cutpoint * Cardinality(WindowSamples(r))
           /\ EnmoSum(WindowSamples(q)) = sb_cutpoint * Cardinality(WindowSamples(q))

\* The cutpoint pairs for which some input of one or two samples, with an
\* interval set, gets a row with MVPA and SB both false.
BothFalsePossible ==
    { p \in CutpointPairs :
        \E t \in { s \in Times : Len(s) <= 2 } : \E acc \in [1..Len(t) -> Accelerations] :
            \E freq \in 1..MaxInterval :
                ReturnsRow(t, acc, p[1], p[2], freq, <<"False", "False">>) }

\* With mvpa_cutpoint > sb_cutpoint no row has both labels true.
ExclusiveWhenOrdered ==
    (Returned /\ mvpa_cutpoint > sb_cutpoint) =>
        \A i \in Samples : result.value[i] # <<"True", "True">>

\* With mvpa_cutpoint <= sb_cutpoint the call is not rejected, and the samples
\* of an epoch whose mean lies between the two cutpoints have both labels true.
BothTrueBetween ==
    (interval # None /\ Finished /\ mvpa_cutpoint <= sb_cutpoint) =>
        /\ result.status = "ok"
        /\ \A r \in Windows :
               LET W == WindowSamples(r)
               IN  ( /\ W # {}
                     /\ mvpa_cutpoint * Cardinality(W) <= EnmoSum(W)
                     /\ EnmoSum(W) <= sb_cutpoint * Cardinality(W) ) =>
                       \A i \in W : result.value[i] = <<"True", "True">>

\* C5 as stated: exclusive when mvpa_cutpoint > sb_cutpoint, both true for a
\* mean between the cutpoints otherwise, and a row with both labels false
\* possible whatever the cutpoints are.
C5_BothFalseForAnyCutpoints ==
    /\ ExclusiveWhenOrdered
    /\ BothTrueBetween
    /\ <<mvpa_cutpoint, sb_cutpoint>> \in BothFalsePossible

\* C5 amended: exclusive when mvpa_cutpoint > sb_cutpoint, both true for a
\* mean between the cutpoints otherwise; a row with both labels false has an
\* epoch mean strictly between sb_cutpoint and mvpa_cutpoint, so it is
\* possible for the cutpoints with sb_cutpoint < mvpa_cutpoint and for no
\* cutpoints with mvpa_cutpoint <= sb_cutpoint.
C5_BothFalseOnlyWhenOrdered ==
    /\ ExclusiveWhenOrdered
    /\ BothTrueBetween
    /\ (<<mvpa_cutpoint, sb_cutpoint>> \in BothFalsePossible) <=> (mvpa_cutpoint > sb_cutpoint)
    /\ Returned =>
           \A r \in Windows : \A i \in WindowSamples(r) :
               result.value[i] = <<"False", "False">> =>
                   /\ sb_cutpoint * Cardinality(WindowSamples(r)) < EnmoSum(WindowSamples(r))
                   /\ EnmoSum(WindowSamples(r)) < mvpa_cutpoint * Cardinality(WindowSamples(r))

\* A call with mvpa_cutpoint < sb_cutpoint that returned a row with both
\* labels true for an epoch of two samples whose mean is strictly between.
C5_Witness ==
    /\ Returned
    /\ mvpa_cutpoint < sb_cutpoint
    /\ \E r \in Windows :
           /\ Cardinality(WindowSamples(r)) = 2
           /\ mvpa_cutpoint * 2 < EnmoSum(WindowSamples(r))
           /\ EnmoSum(WindowSamples(r)) < sb_cutpoint * 2
           /\ \A i \in WindowSamples(r) : result.value[i] = <<"True", "True">>

\* C6: when the magnitude of every sample is at least 1 + mvpa_cutpoint, every
\* row has MVPA true; three samples at 0, 1 and 2 s of magnitude 1.1 with the
\* interval "1s" and the default cutpoints give three rows (true, false).
C6_AllAboveMvpa ==
    Returned =>
        /\ (\A i \in Samples : Magnitude(i) >= One + mvpa_cutpoint) =>
               /\ Len(result.value) = Len(time)
               /\ \A i \in Samples : result.value[i][1] = "True"
        /\ ( /\ time = <<0, 1, 2>>
             /\ \A i \in Samples : Magnitude(i) = 1100
             /\ interval = 1
             /\ mvpa_cutpoint = DefaultMvpaCutpoint /\ sb_cutpoint = DefaultSbCutpoint ) =>
               result.value = <<<<"True", "False">>, <<"True", "False">>, <<"True", "False">>>>

\* The concrete scenario of C6 has returned.
C6_Witness ==
    /\ Returned
    /\ time = <<0, 1, 2>>
    /\ \A i \in Samples : Magnitude(i) = 1100
    /\ interval = 1
    /\ mvpa_cutpoint = DefaultMvpaCutpoint /\ sb_cutpoint = DefaultSbCutpoint
    /\ Len(result.value) = 3

\* C7: when the magnitude of every sample is exactly 1, the default cutpoints
\* give (MVPA false, SB true) for every sample, with any interval that is set.
C7_AllAtRest ==
    ( /\ Returned
      /\ mvpa_cutpoint = DefaultMvpaCutpoint /\ sb_cutpoint = DefaultSbCutpoint
      /\ \A i \in Samples : Magnitude(i) = One ) =>
        /\ Len(result.value) = Len(time)
        /\ \A i \in Samples : result.value[i] = <<"False", "True">>

\* Such a call has returned for samples in more than one epoch, one epoch
\* holding more than one sample.
C7_Witness ==
    /\ Returned
    /\ mvpa_cutpoint = DefaultMvpaCutpoint /\ sb_cutpoint = DefaultSbCutpoint
    /\ \A i \in Samples : Magnitude(i) = One
    /\ \E r, q \in Windows :
           r # q /\ Cardinality(WindowSamples(r)) > 1 /\ WindowSamples(q) # {}
    /\ result.value[1] = <<"False", "True">>

\* Row k of the window table holds the mean ENMO of the samples of the window
\* [Time, Time + interval), or a missing mean when there is none.
WindowMeans ==
    \A r \in Windows :
        LET W == WindowSamples(r)
        IN  tmp.rows[r].EMNO = IF W = {} THEN NaN ELSE <<EnmoSum(W), Cardinality(W)>>

\* C8 as stated: the first window starts at the timestamp of the first sample
\* and window k covers [t_first + k * interval, t_first + (k + 1) * interval).
C8_AnchoredAtFirstSample ==
    Bucketed =>
        /\ \A r \in Windows : tmp.rows[r].Time = time[1] + (r - 1) * interval
        /\ WindowMeans

\* C8 amended: the first window starts at the latest whole multiple of the
\* interval (counted from midnight of the day of the first sample) that is <=
\* the timestamp of the first sample, w0, and window k covers
\* [w0 + k * interval, w0 + (k + 1) * interval).
C8_AnchoredAtMultiple ==
    Bucketed =>
        /\ Len(tmp.rows) >= 1
        /\ \A r \in Windows :
               /\ tmp.rows[r].Time = interval * (time[1] \div interval) + (r - 1) * interval
               /\ tmp.rows[r].Time % interval = 0
        /\ tmp.rows[1].Time <= time[1] /\ time[1] < tmp.rows[1].Time + interval
        /\ WindowMeans

\* The samples are bucketed and the first timestamp is no whole multiple of
\* the interval; the first window holds two samples.
C8_Witness ==
    /\ Bucketed
    /\ time[1] % interval # 0
    /\ tmp.rows[1].Time < time[1]
    /\ Cardinality(WindowSamples(1)) = 2
    /\ Len(tmp.rows) > 1

\* C9: with an interval set the first window's timestamp is <= the first
\* sample's, every sample is matched and every label returned is a boolean;
\* the window matched is the one that contains the sample, and it is not empty.
C9_EverySampleMatched ==
    /\ Bucketed => tmp.rows[1].Time <= time[1]
    /\ (interval # None /\ pc = "return") =>
           \A i \in Samples :
               /\ data.rows[i].MVPA \in {"True", "False"}
               /\ data.rows[i].SB \in {"True", "False"}
               /\ \E r \in Windows :
                      /\ i \in WindowSamples(r)
                      /\ tmp.rows[r].EMNO # NaN
                      /\ data.rows[i].MVPA = tmp.rows[r].MVPA
                      /\ data.rows[i].SB = tmp.rows[r].SB
                      /\ \A q \in Windows :
                             tmp.rows[q].Time <= time[i] => tmp.rows[q].Time <= tmp.rows[r].Time
    /\ Returned =>
           \A i \in Samples : result.value[i] \in {"True", "False"} \X {"True", "False"}

\* A call that returned where the first sample lies after the start of its
\* window and a later sample lies in a later window.
C9_Witness ==
    /\ Returned
    /\ tmp.rows[1].Time < time[1]
    /\ tmp.rows[Len(tmp.rows)].Time > time[1]
    /\ Len(result.value) = Len(time)
    /\ result.value[1] # result.value[Len(time)]

\* C10 as stated: the window table has a row for each window holding a sample
\* and none for a window holding no sample.
C10_EmptyWindowsOmitted ==
    Bucketed =>
        /\ \A r \in Windows : WindowSamples(r) # {} /\ tmp.rows[r].EMNO # NaN
        /\ \A i \in Samples : \E r \in Windows : i \in WindowSamples(r)
        /\ WindowMeans

\* C10 amended: the window table has one row for every window from the one of
\* the first sample to the one of the last sample, consecutive and one
\* interval apart; a window holding samples has their mean ENMO, a window
\* holding none (inside a gap longer than the interval) has a row too, with a
\* missing mean (not zero) and, once classified, MVPA = SB = false.
C10_EmptyWindowsKept ==
    (Bucketed \/ Classified) =>
        /\ \A i \in Samples : \E r \in Windows : i \in WindowSamples(r)
        /\ WindowSamples(1) # {} /\ WindowSamples(Len(tmp.rows)) # {}
        /\ \A r \in 1..(Len(tmp.rows) - 1) : tmp.rows[r + 1].Time = tmp.rows[r].Time + interval
        /\ WindowMeans
        /\ Classified =>
               \A r \in Windows :
                   WindowSamples(r) = {} =>
                       /\ tmp.rows[r].EMNO = NaN
                       /\ tmp.rows[r].MVPA = "False" /\ tmp.rows[r].SB = "False"

\* The window table is classified and holds a row for an empty window between
\* two windows with samples.
C10_Witness ==
    /\ Classified
    /\ \E r \in Windows :
           /\ 1 < r /\ r < Len(tmp.rows)
           /\ WindowSamples(r) = {}
           /\ tmp.rows[r].EMNO = NaN
           /\ tmp.rows[r].MVPA = "False"

====
